---- MODULE Spec2Model ----
(***************************************************************************)
(* The news pipeline of the community news API: fetchNewsForQueries        *)
(* (fan-out of one search request per query, merge with URL dedup) and     *)
(* summarizeArticles (sequential completion calls with description         *)
(* fallback), the query builder (buildAllQueries and its three builders)   *)
(* and the two handlers getNews and getNewsHttp that chain them, alone and  *)
(* as two requests served at the same time.                                *)
(*                                                                         *)
(* JavaScript strings are sequences of tokens, "" is <<>>, and a missing   *)
(* value (undefined / null) is the one-token sequence Undefined.           *)
(***************************************************************************)
EXTENDS Integers, Sequences, FiniteSets, TLC

VARIABLES
    queries,      \* argument of fetchNewsForQueries: [absent, items]
    apiKey,       \* argument of fetchNewsForQueries
    queryLimit,   \* argument of fetchNewsForQueries
    pc,           \* position of the call: "call", "launch", "await", "done"
    limited,      \* limitedQueries
    li,           \* index of the next query the map callback is invoked on
    status,       \* per limited query: "idle", "pending", "settled"
    upstream,     \* per limited query: what the news API answered
    results,      \* the array Promise.allSettled resolves to
    requests,     \* the outbound GETs issued so far, in order (their q)
    errlog,       \* the queries console.error reported as failed
    reordered,    \* some answer arrived while an earlier query was unanswered
    ret,          \* outcome of the call: [kind, value, message]
    sArticles,    \* argument of summarizeArticles: [absent, items]
    sApiKey,      \* argument of summarizeArticles
    sEnable,      \* argument of summarizeArticles (enableSummarization)
    sPc,          \* position of summarizeArticles: "call", "loop", "wait", "done"
    sIdx,         \* index of the article the for loop is at
    summarized,   \* summarizedArticles
    completions,  \* the completion requests issued so far (article indexes)
    sOutcome,     \* per article: how its completion request ended
    sRet,         \* outcome of summarizeArticles: [kind, value, message]
    data,             \* argument of buildAllQueries: [absent, location, ...]
    qPc,              \* position of buildAllQueries: "call", "done"
    localQueries,     \* buildAllQueries: result of buildLocalQueries
    businessQueries,  \* buildAllQueries: result of buildBusinessQueries
    communityQueries, \* buildAllQueries: result of buildCommunityQueries
    uniqueQueries,    \* buildAllQueries: the returned list
    hKind,            \* the handler invoked: "getNews" or "getNewsHttp"
    method,           \* req.method of the HTTP request ("call" for getNews)
    request,          \* the payload: data of getNews, req.body of getNewsHttp
    newsApiKey,       \* getApiKeys().newsApiKey
    openaiApiKey,     \* getApiKeys().openaiApiKey
    hPc,              \* position of the handler: "request", "fetch", "summarize", "done"
    hQueries,         \* the handler's const queries
    responses,        \* what the handler has answered so far
    pipeline,         \* the pipeline functions the handler has called so far
    conc,             \* two requests in flight: per request its locals
    everSeen          \* the urls any request has put in its seenUrls so far

fetchVars == <<queries, apiKey, queryLimit, pc, limited, li, status, upstream,
               results, requests, errlog, reordered, ret>>

sumVars == <<sArticles, sApiKey, sEnable, sPc, sIdx, summarized, completions,
             sOutcome, sRet>>

qbVars == <<data, qPc, localQueries, businessQueries, communityQueries,
            uniqueQueries>>

\* The state of everything but the fetcher and the summarizer.
hVars == <<hKind, method, request, newsApiKey, openaiApiKey, hPc, hQueries,
           responses, pipeline>>

concVars == <<conc, everSeen>>

restVars == <<qbVars, hVars, concVars>>

vars == <<fetchVars, sumVars, restVars>>

----------------------------------------------------------------------------
(* Bounds of the model *)

MaxQueries == 3

MaxLimit == 2

MaxArticles == 3

MaxSumArticles == 2

MaxInterests == 2

MaxHandlerArticles == 2

MaxConcArticles == 1

MaxWideArticles == 1

----------------------------------------------------------------------------
(* JavaScript values *)

Undefined == <<"<undefined>">>

EmptyStr == <<>>

Truthy(v) == v # Undefined /\ v # EmptyStr

OrElse(v, d) == IF Truthy(v) THEN v ELSE d

Min(a, b) == IF a <= b THEN a ELSE b

\* Array.prototype.slice(0, n) for n >= 0
Slice0(items, n) == SubSeq(items, 1, Min(n, Len(items)))

----------------------------------------------------------------------------
(* Inputs *)

Query(i) == <<"q", ToString(i)>>

QueryLists ==
    {[absent |-> TRUE, items |-> <<>>]} \cup
    {[absent |-> FALSE, items |-> [i \in 1..n |-> Query(i)]] : n \in 0..MaxQueries}

ApiKeys == {Undefined, EmptyStr, <<"key">>}

QueryLimits == 0..MaxLimit

RawUrls == {Undefined, EmptyStr, <<"u1">>, <<"u2">>}

\* The headline of hit p of query i: every hit has its own.
Headline(i, p) == <<"t", ToString(i), ToString(p)>>

RawArticle(i, p, url) ==
    [title |-> Headline(i, p), url |-> url, description |-> <<"desc">>,
     image |-> Undefined, publishedAt |-> <<"2024">>, source |-> Undefined]

\* What the news API may answer to query i: a body with up to n articles, a 2xx
\* body without articles ("nodata"), a body whose articles cannot be mapped
\* ("badbody"), or a non-2xx / timeout / network error ("throw").
Responses(i, n) ==
    {[kind |-> "ok", articles |-> [p \in 1..Len(u) |-> RawArticle(i, p, u[p])]] :
        u \in UNION {[1..len -> RawUrls] : len \in 0..n}}
    \cup {[kind |-> k, articles |-> <<>>] : k \in {"nodata", "badbody", "throw"}}

NoResponse == [kind |-> "none", articles |-> <<>>]

PendingResult == [status |-> "pending", value |-> <<>>]

NoReturn == [kind |-> "none", value |-> <<>>, message |-> EmptyStr]

Return(v) == [kind |-> "return", value |-> v, message |-> EmptyStr]

Throw(m) == [kind |-> "throw", value |-> <<>>, message |-> m]

KeyNotConfigured == <<"NEWS_API_KEY", " ", "is", " ", "not", " ", "configured">>

----------------------------------------------------------------------------
(* fetchFromGNews *)

NormalizeArticle(a) ==
    [title |-> OrElse(a.title, EmptyStr),
     url |-> OrElse(a.url, EmptyStr),
     description |-> OrElse(a.description, EmptyStr),
     image |-> OrElse(a.image, EmptyStr),
     publishedAt |-> OrElse(a.publishedAt, EmptyStr),
     source |-> OrElse(a.source, <<"Unknown">>)]

\* The outcome of fetchFromGNews on an upstream answer: the mapped articles, []
\* for a body without articles, a thrown Error for everything the try block
\* raises. (fetchFromNewsAPI, taken for provider "newsapi", differs only in the
\* request parameters and in the name of the image field.)
FetchFromGNews(out) ==
    CASE out.kind = "ok" ->
            [threw |-> FALSE,
             value |-> [p \in 1..Len(out.articles) |-> NormalizeArticle(out.articles[p])]]
      [] out.kind = "nodata" -> [threw |-> FALSE, value |-> <<>>]
      [] OTHER -> [threw |-> TRUE, value |-> <<>>]

----------------------------------------------------------------------------
(* fetchNewsForQueries *)

NoQueries(q) == q.absent \/ Len(q.items) = 0

\* Faulty variant: the key is examined before the query list.
GuardKeyFirst(q, key) ==
    IF ~Truthy(key) THEN "nokey"
    ELSE IF NoQueries(q) THEN "empty"
    ELSE "go"

\* Faulty variant: the key is not examined at all.
GuardNoKeyCheck(q, key) ==
    IF NoQueries(q) THEN "empty" ELSE "go"

\* The two early exits, in the order the code takes them.
Guard(q, key) ==
    IF NoQueries(q) THEN "empty"
    ELSE IF ~Truthy(key) THEN "nokey"
    ELSE "go"

\* Faulty variant: the query list is not truncated.
LimitQueriesNoCap(items, limit) == items

\* limitedQueries = queries.slice(0, queryLimit)
LimitQueries(items, limit) == Slice0(items, limit)

\* The async map callback: a failed fetch is logged and becomes [].
WrapperResult(r) ==
    IF r.threw THEN [status |-> "fulfilled", value |-> <<>>]
    ELSE [status |-> "fulfilled", value |-> r.value]

FirstPending(rs) == CHOOSE j \in 1..Len(rs) :
    rs[j].status = "pending" /\ \A m \in 1..(j - 1) : rs[m].status # "pending"

\* Faulty variant: outcomes are collected in the order they arrive.
StoreResultByArrival(rs, i, r) == [rs EXCEPT ![FirstPending(rs)] = r]

\* Promise.allSettled: the outcome of promise i is element i of the array.
StoreResult(rs, i, r) == [rs EXCEPT ![i] = r]

\* Faulty variant: the call resumes as soon as one promise settled.
BarrierAnySettled(st) == st = <<>> \/ \E i \in 1..Len(st) : st[i] = "settled"

\* await Promise.allSettled(fetchPromises) resumes when every promise settled.
Barrier(st) == \A i \in 1..Len(st) : st[i] = "settled"

\* Faulty variant: seenUrls is not consulted.
KeepArticleIgnoreSeen(article, seen) == Truthy(article.url)

\* Faulty variant: an empty url is treated like any other url.
KeepArticleAnyUrl(article, seen) == article.url \notin seen

\* An article is kept when it has a url that was not seen before.
KeepArticle(article, seen) == Truthy(article.url) /\ article.url \notin seen

RECURSIVE MergeArticles(_, _)
MergeArticles(value, acc) ==
    IF value = <<>> THEN acc
    ELSE LET article == Head(value) IN
         MergeArticles(Tail(value),
             IF KeepArticle(article, acc.seenUrls)
             THEN [allArticles |-> Append(acc.allArticles, article),
                   seenUrls |-> acc.seenUrls \cup {article.url}]
             ELSE acc)

RECURSIVE MergeResults(_, _)
MergeResults(rs, acc) ==
    IF rs = <<>> THEN acc
    ELSE MergeResults(Tail(rs),
             IF Head(rs).status = "fulfilled"
             THEN MergeArticles(Head(rs).value, acc)
             ELSE acc)

\* Faulty variant: seenUrls is one set at module level, shared by all calls.
CombineAndDeduplicateShared(rs) ==
    MergeResults(rs, [allArticles |-> <<>>, seenUrls |-> everSeen]).allArticles

CombineAndDeduplicate(rs) ==
    MergeResults(rs, [allArticles |-> <<>>, seenUrls |-> {}]).allArticles

\* Articles the news API has delivered to this call so far.
Delivered == LET RECURSIVE Sum(_)
                 Sum(i) == IF i = 0 THEN 0 ELSE Sum(i - 1) + Len(upstream[i].articles)
             IN Sum(Len(upstream))

\* No call of summarizeArticles is in progress.
SumIdle ==
    /\ sArticles = [absent |-> TRUE, items |-> <<>>]
    /\ sApiKey = Undefined
    /\ sEnable = FALSE
    /\ sPc = "idle"
    /\ sIdx = 1
    /\ summarized = <<>>
    /\ completions = <<>>
    /\ sOutcome = <<>>
    /\ sRet = NoReturn

\* No call of buildAllQueries is in progress.
QbIdle ==
    /\ data = [absent |-> TRUE]
    /\ qPc = "idle"
    /\ localQueries = <<>>
    /\ businessQueries = <<>>
    /\ communityQueries = <<>>
    /\ uniqueQueries = <<>>

\* No handler is running.
HandlerIdle ==
    /\ hKind = "none"
    /\ method = "none"
    /\ request = [absent |-> TRUE]
    /\ newsApiKey = Undefined
    /\ openaiApiKey = Undefined
    /\ hPc = "idle"
    /\ hQueries = <<>>
    /\ responses = <<>>
    /\ pipeline = <<>>

\* No concurrent requests are in flight.
ConcIdle ==
    /\ conc = <<>>
    /\ everSeen = {}

RestIdle == QbIdle /\ HandlerIdle /\ ConcIdle

\* No call of fetchNewsForQueries is in progress.
FetchIdle ==
    /\ queries = [absent |-> TRUE, items |-> <<>>]
    /\ apiKey = Undefined
    /\ queryLimit = 0
    /\ pc = "idle"
    /\ limited = <<>>
    /\ li = 1
    /\ status = <<>>
    /\ upstream = <<>>
    /\ results = <<>>
    /\ requests = <<>>
    /\ errlog = {}
    /\ reordered = FALSE
    /\ ret = NoReturn

FetchInit ==
    /\ queries \in QueryLists
    /\ apiKey \in ApiKeys
    /\ queryLimit \in QueryLimits
    /\ pc = "call"
    /\ limited = <<>>
    /\ li = 1
    /\ status = <<>>
    /\ upstream = <<>>
    /\ results = <<>>
    /\ requests = <<>>
    /\ errlog = {}
    /\ reordered = FALSE
    /\ ret = NoReturn

\* Entry of fetchNewsForQueries up to the slice.
Enter ==
    /\ pc = "call"
    /\ LET g == Guard(queries, apiKey) IN
       CASE g = "empty" ->
               /\ ret' = Return(<<>>)
               /\ pc' = "done"
               /\ UNCHANGED <<limited, status, upstream, results>>
         [] g = "nokey" ->
               /\ ret' = Throw(KeyNotConfigured)
               /\ pc' = "done"
               /\ UNCHANGED <<limited, status, upstream, results>>
         [] OTHER ->
               LET lq == LimitQueries(queries.items, queryLimit) IN
               /\ limited' = lq
               /\ status' = [i \in 1..Len(lq) |-> "idle"]
               /\ upstream' = [i \in 1..Len(lq) |-> NoResponse]
               /\ results' = [i \in 1..Len(lq) |-> PendingResult]
               /\ pc' = IF Len(lq) = 0 THEN "await" ELSE "launch"
               /\ ret' = ret
    /\ UNCHANGED <<queries, apiKey, queryLimit, li, requests, errlog, reordered>>
    /\ UNCHANGED <<sumVars, restVars>>

\* The map callback runs on the next query up to its first await: the GET is
\* sent. The loop of map is synchronous, so no response is handled meanwhile.
Launch ==
    /\ pc = "launch"
    /\ li <= Len(limited)
    /\ requests' = Append(requests, limited[li])
    /\ status' = [status EXCEPT ![li] = "pending"]
    /\ li' = li + 1
    /\ pc' = IF li = Len(limited) THEN "await" ELSE "launch"
    /\ UNCHANGED <<queries, apiKey, queryLimit, limited, upstream, results,
                   errlog, reordered, ret>>
    /\ UNCHANGED <<sumVars, restVars>>

\* Faulty variant: Promise.all over fetches that are not caught per query, so
\* the first failed fetch rejects the whole call.
SettleFailFast(i, out) ==
    /\ pc = "await"
    /\ i \in 1..Len(limited)
    /\ status[i] = "pending"
    /\ LET r == FetchFromGNews(out) IN
       /\ upstream' = [upstream EXCEPT ![i] = out]
       /\ results' = StoreResult(results, i,
                         IF r.threw THEN [status |-> "rejected", value |-> <<>>]
                         ELSE WrapperResult(r))
       /\ errlog' = IF r.threw THEN errlog \cup {i} ELSE errlog
       /\ pc' = IF r.threw THEN "done" ELSE pc
       /\ ret' = IF r.threw THEN Throw(<<"Failed", " ", "to", " ", "fetch", " ", "news">>)
                 ELSE ret
    /\ status' = [status EXCEPT ![i] = "settled"]
    /\ reordered' = (reordered \/ \E j \in 1..(i - 1) : status[j] = "pending")
    /\ UNCHANGED <<queries, apiKey, queryLimit, limited, li, requests>>
    /\ UNCHANGED <<sumVars, restVars>>

\* The answer to query i arrives and its promise settles.
Settle(i, out) ==
    /\ pc = "await"
    /\ i \in 1..Len(limited)
    /\ status[i] = "pending"
    /\ LET r == FetchFromGNews(out) IN
       /\ upstream' = [upstream EXCEPT ![i] = out]
       /\ results' = StoreResult(results, i, WrapperResult(r))
       /\ errlog' = IF r.threw THEN errlog \cup {i} ELSE errlog
    /\ status' = [status EXCEPT ![i] = "settled"]
    /\ reordered' = (reordered \/ \E j \in 1..(i - 1) : status[j] = "pending")
    /\ UNCHANGED <<queries, apiKey, queryLimit, pc, limited, li, requests, ret>>
    /\ UNCHANGED <<sumVars, restVars>>

\* After the await: combine, deduplicate, return.
Merge ==
    /\ pc = "await"
    /\ Barrier(status)
    /\ ret' = Return(CombineAndDeduplicate(results))
    /\ pc' = "done"
    /\ UNCHANGED <<queries, apiKey, queryLimit, limited, li, status, upstream,
                   results, requests, errlog, reordered>>
    /\ UNCHANGED <<sumVars, restVars>>

SettleSome ==
    \E i \in 1..Len(limited) :
        \E out \in Responses(i, MaxArticles - Delivered) : Settle(i, out)

Next == Enter \/ Launch \/ SettleSome \/ Merge

Init == FetchInit /\ SumIdle /\ RestIdle

Spec == Init /\ [][Next]_vars

----------------------------------------------------------------------------
(* summarizeArticle and summarizeArticles *)

ArticleShapes == BOOLEAN \X {"missing", "empty", "text"}

\* The article at position p of the input: with or without a title, with a
\* missing, an empty or a proper description.
ArticleAt(p, shape) ==
    [title |-> IF shape[1] THEN <<"T", ToString(p)>> ELSE Undefined,
     url |-> <<"u", ToString(p)>>,
     description |-> CASE shape[2] = "missing" -> Undefined
                       [] shape[2] = "empty" -> EmptyStr
                       [] OTHER -> <<"d", ToString(p)>>,
     image |-> EmptyStr, publishedAt |-> <<"2024">>, source |-> <<"Unknown">>]

ArticleLists ==
    {[absent |-> TRUE, items |-> <<>>]} \cup
    {[absent |-> FALSE, items |-> [p \in 1..Len(sh) |-> ArticleAt(p, sh[p])]] :
        sh \in UNION {[1..n -> ArticleShapes] : n \in 0..MaxSumArticles}}

Contents == {<<" ", "a", " ", "b", " ">>, <<" ">>, EmptyStr}

\* How a completion request may end: a response with content ("ok"), a
\* response without choices or content ("nocontent"), a response whose content
\* is no string ("nonstring"), a provider error ("error"), a timeout.
CompletionOutcomes ==
    {[kind |-> "ok", content |-> c] : c \in Contents}
    \cup {[kind |-> k, content |-> Undefined] :
             k \in {"nocontent", "nonstring", "error", "timeout"}}

NoOutcome == [kind |-> "none", content |-> Undefined]

RECURSIVE TrimStart(_)
TrimStart(str) == IF str # <<>> /\ Head(str) = " " THEN TrimStart(Tail(str)) ELSE str

RECURSIVE TrimEnd(_)
TrimEnd(str) ==
    IF str # <<>> /\ str[Len(str)] = " " THEN TrimEnd(SubSeq(str, 1, Len(str) - 1))
    ELSE str

\* String.prototype.trim
Trim(str) == TrimEnd(TrimStart(str))

NoArticles(a) == a.absent \/ Len(a.items) = 0

\* Faulty variant: both conditions are required to skip the summarization.
SummarizationOffBoth(enable, key) == ~enable /\ ~Truthy(key)

SummarizationOff(enable, key) == ~enable \/ ~Truthy(key)

\* article.description || ""
Fallback(article) == OrElse(article.description, EmptyStr)

\* { ...article, summary: article.description || "" }
WithDescriptionAsSummary(article) ==
    [title |-> article.title, url |-> article.url,
     description |-> article.description, image |-> article.image,
     publishedAt |-> article.publishedAt, source |-> article.source,
     summary |-> Fallback(article)]

DescriptionsAsSummaries(items) ==
    [p \in 1..Len(items) |-> WithDescriptionAsSummary(items[p])]

Summarized(article, summary) ==
    [title |-> article.title, url |-> article.url, summary |-> summary,
     image |-> article.image, publishedAt |-> article.publishedAt]

\* The first exit of summarizeArticle: nothing to summarize, no request.
Degenerate(article) == ~Truthy(article.title) /\ ~Truthy(article.description)

\* The try block of summarizeArticle once the completion request ended with
\* out: the trimmed content, the description when the response has no content,
\* or an exception (rejected request, content.trim is not a function).
TryComplete(article, out) ==
    CASE out.kind = "ok" /\ Truthy(out.content) ->
            [threw |-> FALSE, value |-> Trim(out.content)]
      [] out.kind \in {"ok", "nocontent"} ->
            [threw |-> FALSE, value |-> Fallback(article)]
      [] OTHER -> [threw |-> TRUE, value |-> EmptyStr]

\* Faulty variant: an unusable answer yields "" instead of the description.
SummarizeArticleNoFallback(article, out) ==
    LET r == TryComplete(article, out) IN
    IF r.threw \/ ~(out.kind = "ok" /\ Truthy(out.content))
    THEN [threw |-> FALSE, value |-> EmptyStr]
    ELSE r

\* summarizeArticle: its catch block turns every exception of the try block
\* into the description.
SummarizeArticle(article, out) ==
    LET r == TryComplete(article, out) IN
    IF r.threw THEN [threw |-> FALSE, value |-> Fallback(article)] ELSE r

\* The body of the for loop of summarizeArticles, with its own catch.
LoopEntry(article, r) ==
    IF r.threw THEN Summarized(article, Fallback(article))
    ELSE Summarized(article, r.value)

SumInit ==
    /\ sArticles \in ArticleLists
    /\ sApiKey \in ApiKeys
    /\ sEnable \in BOOLEAN
    /\ sPc = "call"
    /\ sIdx = 1
    /\ summarized = <<>>
    /\ completions = <<>>
    /\ sOutcome = [p \in 1..Len(sArticles.items) |-> NoOutcome]
    /\ sRet = NoReturn

\* Entry of summarizeArticles up to the loop; the client constructor may throw.
SumEnter ==
    /\ sPc = "call"
    /\ \/ /\ NoArticles(sArticles)
          /\ sRet' = Return(<<>>)
          /\ sPc' = "done"
       \/ /\ ~NoArticles(sArticles)
          /\ SummarizationOff(sEnable, sApiKey)
          /\ sRet' = Return(DescriptionsAsSummaries(sArticles.items))
          /\ sPc' = "done"
       \/ /\ ~NoArticles(sArticles)
          /\ ~SummarizationOff(sEnable, sApiKey)
          /\ \E built \in BOOLEAN :
                IF built
                THEN sPc' = "loop" /\ sRet' = sRet
                ELSE /\ sRet' = Return(DescriptionsAsSummaries(sArticles.items))
                     /\ sPc' = "done"
    /\ UNCHANGED <<sArticles, sApiKey, sEnable, sIdx, summarized, completions, sOutcome>>
    /\ UNCHANGED <<fetchVars, restVars>>

\* summarizedArticles.push(entry), then the next iteration or the return.
Push(entry) ==
    /\ summarized' = Append(summarized, entry)
    /\ sIdx' = sIdx + 1
    /\ IF sIdx = Len(sArticles.items)
       THEN sPc' = "done" /\ sRet' = Return(Append(summarized, entry))
       ELSE sPc' = "loop" /\ sRet' = sRet

\* Faulty variant: the requests of the current and of the next article are
\* sent together (the articles are mapped to promises instead of awaited one
\* by one).
SumStepEager ==
    /\ sPc = "loop"
    /\ LET article == sArticles.items[sIdx] IN
       IF Degenerate(article)
       THEN /\ Push(LoopEntry(article, [threw |-> FALSE, value |-> Fallback(article)]))
            /\ UNCHANGED completions
       ELSE /\ completions' =
                  IF sIdx < Len(sArticles.items) /\ ~Degenerate(sArticles.items[sIdx + 1])
                  THEN completions \o <<sIdx, sIdx + 1>>
                  ELSE Append(completions, sIdx)
            /\ sPc' = "wait"
            /\ UNCHANGED <<sIdx, summarized, sRet>>
    /\ UNCHANGED <<sArticles, sApiKey, sEnable, sOutcome>>
    /\ UNCHANGED <<fetchVars, restVars>>

\* One iteration of the for loop up to the await: summarizeArticle either
\* returns at once or sends its completion request.
SumStep ==
    /\ sPc = "loop"
    /\ LET article == sArticles.items[sIdx] IN
       IF Degenerate(article)
       THEN /\ Push(LoopEntry(article, [threw |-> FALSE, value |-> Fallback(article)]))
            /\ UNCHANGED completions
       ELSE /\ completions' = Append(completions, sIdx)
            /\ sPc' = "wait"
            /\ UNCHANGED <<sIdx, summarized, sRet>>
    /\ UNCHANGED <<sArticles, sApiKey, sEnable, sOutcome>>
    /\ UNCHANGED <<fetchVars, restVars>>

\* The completion request of the current article ends; its entry is pushed.
SumSettle(out) ==
    /\ sPc = "wait"
    /\ sOutcome' = [sOutcome EXCEPT ![sIdx] = out]
    /\ LET article == sArticles.items[sIdx] IN
       Push(LoopEntry(article, SummarizeArticle(article, out)))
    /\ UNCHANGED <<sArticles, sApiKey, sEnable, completions>>
    /\ UNCHANGED <<fetchVars, restVars>>

SumSettleSome == \E out \in CompletionOutcomes : SumSettle(out)

InitSum == FetchIdle /\ SumInit /\ RestIdle

NextSum == SumEnter \/ SumStep \/ SumSettleSome

SpecSum == InitSum /\ [][NextSum]_vars

----------------------------------------------------------------------------
(* Query builder: buildLocalQueries, buildBusinessQueries,                 *)
(* buildCommunityQueries, buildAllQueries                                  *)

\* A truthy value whose typeof is not "string" (a number, an object).
NonString == <<"<number>">>

IsString(v) == v # Undefined /\ v # NonString

NoLocation == [absent |-> TRUE]

LocationFields == {Undefined, EmptyStr, <<"A">>, <<"a">>}

Locations ==
    {NoLocation} \cup
    {[absent |-> FALSE, city |-> c, state |-> s, country |-> n] :
        c \in LocationFields, s \in LocationFields, n \in LocationFields}

InterestElements ==
    {Undefined, NonString, EmptyStr, <<" ">>, <<"A">>, <<" ", "A", " ">>}

\* businessInterests: missing, an array, or a truthy value that is no array.
InterestLists ==
    {[kind |-> "absent", items |-> <<>>], [kind |-> "other", items |-> <<>>]} \cup
    {[kind |-> "array", items |-> l] :
        l \in UNION {[1..n -> InterestElements] : n \in 0..MaxInterests}}

Communities == {Undefined, NonString, <<" ">>, <<" ", "A">>}

NoData == [absent |-> TRUE]

DataValues ==
    {NoData} \cup
    {[absent |-> FALSE, location |-> l, businessInterests |-> b, community |-> c] :
        l \in Locations, b \in InterestLists, c \in Communities}

\* The template literal `${v}<suffix>`; a missing v is printed as its token.
Template(v, suffix) == v \o <<suffix>>

\* Faulty variant: the fields are not tested before they are printed.
BuildLocalQueriesUnguarded(location) ==
    IF location.absent THEN <<>>
    ELSE <<Template(location.city, " news"), Template(location.city, " local news"),
           Template(location.state, " local news"), Template(location.state, " latest news"),
           Template(location.country, " national news"),
           Template(location.country, " latest news")>>

BuildLocalQueries(location) ==
    IF location.absent THEN <<>>
    ELSE (IF Truthy(location.city)
          THEN <<Template(location.city, " news"), Template(location.city, " local news")>>
          ELSE <<>>)
         \o
         (IF Truthy(location.state)
          THEN <<Template(location.state, " local news"),
                 Template(location.state, " latest news")>>
          ELSE <<>>)
         \o
         (IF Truthy(location.country)
          THEN <<Template(location.country, " national news"),
                 Template(location.country, " latest news")>>
          ELSE <<>>)

\* Faulty variant: the trimmed interest is not tested for emptiness.
InterestQueriesUnchecked(interest) ==
    IF Truthy(interest) /\ IsString(interest)
    THEN <<Template(Trim(interest), " business news"), Template(Trim(interest), " trends")>>
    ELSE <<>>

\* The body of the for loop of buildBusinessQueries.
InterestQueries(interest) ==
    IF Truthy(interest) /\ IsString(interest)
    THEN LET trimmedInterest == Trim(interest) IN
         IF Truthy(trimmedInterest)
         THEN <<Template(trimmedInterest, " business news"),
                Template(trimmedInterest, " trends")>>
         ELSE <<>>
    ELSE <<>>

RECURSIVE EachInterest(_)
EachInterest(items) ==
    IF items = <<>> THEN <<>>
    ELSE InterestQueries(Head(items)) \o EachInterest(Tail(items))

BuildBusinessQueries(businessInterests) ==
    IF businessInterests.kind # "array" THEN <<>>
    ELSE EachInterest(businessInterests.items)

BuildCommunityQueries(community) ==
    IF ~Truthy(community) \/ ~IsString(community) THEN <<>>
    ELSE LET trimmedCommunity == Trim(community) IN
         IF Truthy(trimmedCommunity)
         THEN <<Template(trimmedCommunity, " schemes"),
                Template(trimmedCommunity, " news"),
                Template(trimmedCommunity, " initiatives")>>
         ELSE <<>>

\* q && q.trim()
NotBlank(q) == Truthy(q) /\ Truthy(Trim(q))

RECURSIVE SetOrder(_, _)
\* [...new Set(items)]: the items in insertion order, each one once.
SetOrder(items, seen) ==
    IF items = <<>> THEN <<>>
    ELSE IF Head(items) \in seen THEN SetOrder(Tail(items), seen)
         ELSE <<Head(items)>> \o SetOrder(Tail(items), seen \cup {Head(items)})

\* Faulty variant: the list is filtered but not passed through a Set.
UniqueQueriesFilterOnly(allQueries) == SelectSeq(allQueries, NotBlank)

UniqueQueries(allQueries) == SetOrder(SelectSeq(allQueries, NotBlank), {})

\* The value buildAllQueries returns for d.
AllQueries(d) ==
    IF d.absent THEN <<>>
    ELSE UniqueQueries(BuildLocalQueries(d.location)
                       \o BuildBusinessQueries(d.businessInterests)
                       \o BuildCommunityQueries(d.community))

QbInit ==
    /\ data \in DataValues
    /\ qPc = "call"
    /\ localQueries = <<>>
    /\ businessQueries = <<>>
    /\ communityQueries = <<>>
    /\ uniqueQueries = <<>>

\* One call of buildAllQueries(data).
BuildAllQueries ==
    /\ qPc = "call"
    /\ IF data.absent
       THEN UNCHANGED <<localQueries, businessQueries, communityQueries, uniqueQueries>>
       ELSE /\ localQueries' = BuildLocalQueries(data.location)
            /\ businessQueries' = BuildBusinessQueries(data.businessInterests)
            /\ communityQueries' = BuildCommunityQueries(data.community)
            /\ uniqueQueries' =
                 UniqueQueries(BuildLocalQueries(data.location)
                               \o BuildBusinessQueries(data.businessInterests)
                               \o BuildCommunityQueries(data.community))
    /\ qPc' = "done"
    /\ UNCHANGED data
    /\ UNCHANGED <<fetchVars, sumVars, hVars, concVars>>

InitQB == FetchIdle /\ SumIdle /\ QbInit /\ HandlerIdle /\ ConcIdle

NextQB == BuildAllQueries

SpecQB == InitQB /\ [][NextQB]_vars

----------------------------------------------------------------------------
(* The handlers getNews and getNewsHttp *)

\* DEFAULT_QUERY_LIMIT with NEWS_QUERY_LIMIT unset
DEFAULT_QUERY_LIMIT == 5

Handlers == {"getNews", "getNewsHttp"}

ConfiguredKeys == {Undefined, <<"key">>}

Payload(l) ==
    [absent |-> FALSE, location |-> l,
     businessInterests |-> [kind |-> "absent", items |-> <<>>],
     community |-> Undefined]

Place(c, s, n) == [absent |-> FALSE, city |-> c, state |-> s, country |-> n]

\* The payloads: none, one without location, one whose location has no usable
\* field, one with a country, one with the same city and state.
Payloads ==
    {NoData,
     Payload(NoLocation),
     Payload(Place(Undefined, EmptyStr, Undefined)),
     Payload(Place(Undefined, Undefined, <<"a">>)),
     Payload(Place(<<"A">>, <<"A">>, Undefined))}

\* Faulty variant: a location is accepted whatever its fields hold.
ValidateRequestLax(d) ==
    IF d.absent
    THEN [isValid |-> FALSE, error |-> "Request data is required"]
    ELSE IF d.location.absent
    THEN [isValid |-> FALSE,
          error |-> "Location is required. Please provide city, state, and country."]
    ELSE [isValid |-> TRUE, error |-> ""]

ValidateRequest(d) ==
    IF d.absent
    THEN [isValid |-> FALSE, error |-> "Request data is required"]
    ELSE IF d.location.absent
    THEN [isValid |-> FALSE,
          error |-> "Location is required. Please provide city, state, and country."]
    ELSE IF ~Truthy(d.location.city) /\ ~Truthy(d.location.state)
            /\ ~Truthy(d.location.country)
    THEN [isValid |-> FALSE,
          error |-> "At least one of city, state, or country is required in location."]
    ELSE [isValid |-> TRUE, error |-> ""]

\* The literal texts of the two handlers, by exit.
Text(h, exit) ==
    CASE exit = "nokey" ->
            IF h = "getNews"
            THEN "News API is not configured. Please contact administrator."
            ELSE "News API is not configured."
      [] exit = "noqueries" ->
            IF h = "getNews"
            THEN "No search queries could be generated from the provided data."
            ELSE "No search queries could be generated."
      [] exit = "noarticles" ->
            IF h = "getNews"
            THEN "No news articles found for your criteria."
            ELSE "No news articles found."
      [] exit = "fetchfailed" ->
            IF h = "getNews"
            THEN "Failed to fetch news articles. Please try again later."
            ELSE "An unexpected error occurred."
      [] OTHER ->
            IF h = "getNews"
            THEN "An unexpected error occurred. Please try again later."
            ELSE "An unexpected error occurred."

\* Faulty variant: the error object is sent without its results list.
ErrorEnvelopeBare(msg) == [status |-> "error", error |-> msg]

ErrorEnvelope(msg) == [status |-> "error", error |-> msg, results |-> <<>>]

EmptySuccess(msg) == [status |-> "success", results |-> <<>>, message |-> msg]

\* Faulty variant: queriesUsed counts the queries that were sent.
SuccessCountsSent(items, used) ==
    [status |-> "success", results |-> items,
     queriesUsed |-> Min(used, DEFAULT_QUERY_LIMIT),
     totalArticles |-> Len(items)]

Success(items, used) ==
    [status |-> "success", results |-> items, queriesUsed |-> used,
     totalArticles |-> Len(items)]

\* return of getNews; res.status(code).json(body) of getNewsHttp
Reply(h, code, body) ==
    IF h = "getNews" THEN [via |-> "return", body |-> body]
    ELSE [via |-> "json", code |-> code, body |-> body]

\* Faulty variant: the key is looked at before the payload.
DecideKeyFirst(d, key) ==
    IF ~Truthy(key) THEN "nokey"
    ELSE IF ~ValidateRequest(d).isValid THEN "invalid"
    ELSE IF Len(AllQueries(d)) = 0 THEN "noqueries"
    ELSE "go"

\* The exits of a handler before its first await, in the order of the code.
Decide(d, key) ==
    IF ~ValidateRequest(d).isValid THEN "invalid"
    ELSE IF ~Truthy(key) THEN "nokey"
    ELSE IF Len(AllQueries(d)) = 0 THEN "noqueries"
    ELSE "go"

HandlerInit ==
    /\ hKind \in Handlers
    /\ method \in (IF hKind = "getNews" THEN {"call"} ELSE {"POST", "OPTIONS"})
    /\ request \in Payloads
    /\ newsApiKey \in ConfiguredKeys
    /\ openaiApiKey \in ConfiguredKeys
    /\ hPc = "request"
    /\ hQueries = <<>>
    /\ responses = <<>>
    /\ pipeline = <<>>

\* The handler answers and ends.
Finish(response) ==
    /\ responses' = Append(responses, response)
    /\ hPc' = "done"

\* fetchNewsForQueries(queries, newsApiKey) is called.
StartFetch(qs, key) ==
    /\ queries' = [absent |-> FALSE, items |-> qs]
    /\ apiKey' = key
    /\ queryLimit' = DEFAULT_QUERY_LIMIT
    /\ pc' = "call"
    /\ limited' = <<>>
    /\ li' = 1
    /\ status' = <<>>
    /\ upstream' = <<>>
    /\ results' = <<>>
    /\ requests' = <<>>
    /\ errlog' = {}
    /\ reordered' = FALSE
    /\ ret' = NoReturn

\* Faulty variant: summarization is requested whatever the key is, with a
\* built-in key when none is configured.
StartSummarizeAlways(articles, key) ==
    /\ sArticles' = [absent |-> FALSE, items |-> articles]
    /\ sApiKey' = OrElse(key, <<"key">>)
    /\ sEnable' = TRUE
    /\ sPc' = "call"
    /\ sIdx' = 1
    /\ summarized' = <<>>
    /\ completions' = <<>>
    /\ sOutcome' = [p \in 1..Len(articles) |-> NoOutcome]
    /\ sRet' = NoReturn

\* summarizeArticles(articles, openaiApiKey, Boolean(openaiApiKey)) is called.
StartSummarize(articles, key) ==
    /\ sArticles' = [absent |-> FALSE, items |-> articles]
    /\ sApiKey' = key
    /\ sEnable' = Truthy(key)
    /\ sPc' = "call"
    /\ sIdx' = 1
    /\ summarized' = <<>>
    /\ completions' = <<>>
    /\ sOutcome' = [p \in 1..Len(articles) |-> NoOutcome]
    /\ sRet' = NoReturn

\* A handler from validation to its first await.
Accept ==
    LET d == Decide(request, newsApiKey) IN
    CASE d = "invalid" ->
            /\ Finish(Reply(hKind, 400, ErrorEnvelope(ValidateRequest(request).error)))
            /\ UNCHANGED <<hQueries, pipeline, fetchVars>>
      [] d = "nokey" ->
            /\ Finish(Reply(hKind, 500, ErrorEnvelope(Text(hKind, "nokey"))))
            /\ UNCHANGED <<hQueries, pipeline, fetchVars>>
      [] d = "noqueries" ->
            /\ Finish(Reply(hKind, 200, EmptySuccess(Text(hKind, "noqueries"))))
            /\ hQueries' = AllQueries(request)
            /\ pipeline' = Append(pipeline, "buildAllQueries")
            /\ UNCHANGED fetchVars
      [] OTHER ->
            /\ hQueries' = AllQueries(request)
            /\ pipeline' = pipeline \o <<"buildAllQueries", "fetchNewsForQueries">>
            /\ StartFetch(AllQueries(request), newsApiKey)
            /\ hPc' = "fetch"
            /\ UNCHANGED responses

GetNews ==
    /\ hPc = "request"
    /\ hKind = "getNews"
    /\ Accept
    /\ UNCHANGED <<hKind, method, request, newsApiKey, openaiApiKey>>
    /\ UNCHANGED <<sumVars, qbVars, concVars>>

GetNewsHttp ==
    /\ hPc = "request"
    /\ hKind = "getNewsHttp"
    /\ IF method = "OPTIONS"
       THEN /\ Finish([via |-> "send", code |-> 204, body |-> EmptyStr])
            /\ UNCHANGED <<hQueries, pipeline, fetchVars>>
       ELSE Accept
    /\ UNCHANGED <<hKind, method, request, newsApiKey, openaiApiKey>>
    /\ UNCHANGED <<sumVars, qbVars, concVars>>

\* The await of fetchNewsForQueries ends: the catch (the inner one of getNews,
\* the outer one of getNewsHttp), the exit without articles, or the call of
\* summarizeArticles.
ArticlesFetched ==
    /\ hPc = "fetch"
    /\ pc = "done"
    /\ IF ret.kind = "throw"
       THEN /\ Finish(Reply(hKind, 500, ErrorEnvelope(Text(hKind, "fetchfailed"))))
            /\ UNCHANGED <<pipeline, sumVars>>
       ELSE IF Len(ret.value) = 0
       THEN /\ Finish(Reply(hKind, 200, EmptySuccess(Text(hKind, "noarticles"))))
            /\ UNCHANGED <<pipeline, sumVars>>
       ELSE /\ StartSummarize(ret.value, openaiApiKey)
            /\ pipeline' = Append(pipeline, "summarizeArticles")
            /\ hPc' = "summarize"
            /\ UNCHANGED responses
    /\ UNCHANGED <<hKind, method, request, newsApiKey, openaiApiKey, hQueries>>
    /\ UNCHANGED <<fetchVars, qbVars, concVars>>

\* The await of summarizeArticles ends: the final answer, or the outer catch.
ArticlesSummarized ==
    /\ hPc = "summarize"
    /\ sPc = "done"
    /\ IF sRet.kind = "throw"
       THEN Finish(Reply(hKind, 500, ErrorEnvelope(Text(hKind, "unexpected"))))
       ELSE Finish(Reply(hKind, 200, Success(sRet.value, Len(hQueries))))
    /\ UNCHANGED <<hKind, method, request, newsApiKey, openaiApiKey, hQueries, pipeline>>
    /\ UNCHANGED <<fetchVars, sumVars, qbVars, concVars>>

HandlerUrls == {Undefined, <<"u1">>, <<"u2">>}

\* What the news API answers to a handler's query i: an error or up to n
\* articles.
HandlerResponses(i, n) ==
    {out \in Responses(i, n) :
        /\ out.kind \in {"ok", "throw"}
        /\ \A p \in 1..Len(out.articles) : out.articles[p].url \in HandlerUrls}

HandlerSettleSome ==
    \E i \in 1..Len(limited) :
        \E out \in HandlerResponses(i, MaxHandlerArticles - Delivered) : Settle(i, out)

\* How a handler's completion request ends: with a text or with an error.
HandlerCompletions == {out \in CompletionOutcomes : out.kind \in {"ok", "error"}}

HandlerSumSettleSome == \E out \in HandlerCompletions : SumSettle(out)

InitHandler == FetchIdle /\ SumIdle /\ QbIdle /\ HandlerInit /\ ConcIdle

NextHandler ==
    \/ GetNews \/ GetNewsHttp
    \/ Enter \/ Launch \/ HandlerSettleSome \/ Merge
    \/ ArticlesFetched
    \/ SumEnter \/ SumStep \/ HandlerSumSettleSome
    \/ ArticlesSummarized

SpecHandler == InitHandler /\ [][NextHandler]_vars

\* The steps the handler takes by itself: the event loop runs every
\* continuation that is ready.
HandlerSteps ==
    \/ GetNews \/ GetNewsHttp
    \/ Enter \/ Launch \/ Merge
    \/ ArticlesFetched
    \/ SumEnter \/ SumStep
    \/ ArticlesSummarized

\* Every outbound request ends: the news GET has a timeout of 10 s, and the
\* completion request ends with an answer or an error.
SpecHandlerFair ==
    /\ SpecHandler
    /\ WF_vars(HandlerSteps)
    /\ WF_vars(HandlerSettleSome)
    /\ WF_vars(HandlerSumSettleSome)

\* Payloads that build up to 11 queries: every pattern of present location
\* fields, with and without business interests and a community.
WideLocations ==
    {Place(c, s, n) :
        c \in {Undefined, <<"A">>}, s \in {EmptyStr, <<"B">>},
        n \in {Undefined, <<"A">>, <<"C">>}}

WidePayloads ==
    {[absent |-> FALSE, location |-> l, businessInterests |-> b, community |-> c] :
        l \in WideLocations,
        b \in {[kind |-> "absent", items |-> <<>>],
                [kind |-> "array", items |-> <<<<"X">>>>]},
        c \in {Undefined, <<"X">>}}

WideInit ==
    /\ hKind \in Handlers
    /\ method \in (IF hKind = "getNews" THEN {"call"} ELSE {"POST", "OPTIONS"})
    /\ request \in WidePayloads
    /\ newsApiKey \in ConfiguredKeys
    /\ openaiApiKey \in ConfiguredKeys
    /\ hPc = "request"
    /\ hQueries = <<>>
    /\ responses = <<>>
    /\ pipeline = <<>>

\* What the news API answers to query i of such a request: an error, or,
\* while n allows it, one article.
WideResponses(i, n) ==
    {out \in Responses(i, n) :
        \/ out.kind = "throw"
        \/ /\ out.kind = "ok"
           /\ Len(out.articles) = 1
           /\ out.articles[1].url = <<"u1">>}

WideSettleSome ==
    \E i \in 1..Len(limited) :
        \E out \in WideResponses(i, MaxWideArticles - Delivered) : Settle(i, out)

InitWide == FetchIdle /\ SumIdle /\ QbIdle /\ WideInit /\ ConcIdle

NextWide ==
    \/ GetNews \/ GetNewsHttp
    \/ Enter \/ Launch \/ WideSettleSome \/ Merge
    \/ ArticlesFetched
    \/ SumEnter \/ SumStep \/ HandlerSumSettleSome
    \/ ArticlesSummarized

SpecWide == InitWide /\ [][NextWide]_vars

----------------------------------------------------------------------------
(* Two requests served at the same time *)

Requests == {"r1", "r2"}

NoAnswer == [via |-> "none"]

\* The locals of a request that has just arrived.
Arrived(h, d, news, openai) ==
    [handler |-> h, payload |-> d, news |-> news, openai |-> openai,
     stage |-> "request", queries |-> <<>>, up |-> <<>>, articles |-> <<>>,
     outs |-> <<>>, response |-> NoAnswer, overlapped |-> FALSE]

ConcPayloads == {NoData, Payload(Place(Undefined, Undefined, <<"a">>))}

ConcInit ==
    /\ conc \in [Requests ->
                    {Arrived("getNews", d, news, openai) :
                        d \in ConcPayloads, news \in ConfiguredKeys,
                        openai \in ConfiguredKeys}]
    /\ everSeen = {}

InFlight(c) == c.stage \in {"fetch", "summarize"}

RECURSIVE DeliveredIn(_)
\* Articles the news API has delivered to one request so far.
DeliveredIn(up) ==
    IF up = <<>> THEN 0 ELSE Len(Head(up).articles) + DeliveredIn(Tail(up))

ConcUrls == {<<"u1">>}

ConcResponses(i, n) ==
    {out \in Responses(i, n) :
        /\ out.kind \in {"ok", "throw"}
        /\ \A p \in 1..Len(out.articles) : out.articles[p].url \in ConcUrls}

\* Request r from validation to the launch of its fetches.
ConcAccept(r) ==
    LET c == conc[r]
        d == Decide(c.payload, c.news)
        during == \E o \in Requests \ {r} : InFlight(conc[o])
        answer(a) == [c EXCEPT !.stage = "done", !.response = a, !.overlapped = during]
    IN /\ c.stage = "request"
       /\ conc' = [conc EXCEPT ![r] =
            CASE d = "invalid" ->
                    answer(Reply(c.handler, 400, ErrorEnvelope(ValidateRequest(c.payload).error)))
              [] d = "nokey" ->
                    answer(Reply(c.handler, 500, ErrorEnvelope(Text(c.handler, "nokey"))))
              [] d = "noqueries" ->
                    answer(Reply(c.handler, 200, EmptySuccess(Text(c.handler, "noqueries"))))
              [] OTHER ->
                    [c EXCEPT !.stage = "fetch",
                              !.queries = AllQueries(c.payload),
                              !.up = [i \in 1..Len(LimitQueries(AllQueries(c.payload),
                                                                DEFAULT_QUERY_LIMIT))
                                         |-> NoResponse],
                              !.overlapped = during]]
       /\ UNCHANGED everSeen
       /\ UNCHANGED <<fetchVars, sumVars, qbVars, hVars>>

\* The news API answers query i of request r.
ConcSettle(r, i, out) ==
    /\ conc[r].stage = "fetch"
    /\ i \in 1..Len(conc[r].up)
    /\ conc[r].up[i] = NoResponse
    /\ conc' = [conc EXCEPT ![r].up[i] = out]
    /\ UNCHANGED everSeen
    /\ UNCHANGED <<fetchVars, sumVars, qbVars, hVars>>

\* All fetches of request r are settled: merge, then the handler up to its
\* next await or to its answer.
ConcMerge(r) ==
    LET c == conc[r]
        settled == [i \in 1..Len(c.up) |-> WrapperResult(FetchFromGNews(c.up[i]))]
        articles == CombineAndDeduplicate(settled)
    IN /\ c.stage = "fetch"
       /\ \A i \in 1..Len(c.up) : c.up[i] # NoResponse
       /\ everSeen' = everSeen \cup {articles[p].url : p \in 1..Len(articles)}
       /\ conc' = [conc EXCEPT ![r] =
            IF Len(articles) = 0
            THEN [c EXCEPT !.stage = "done",
                           !.response = Reply(c.handler, 200,
                                              EmptySuccess(Text(c.handler, "noarticles")))]
            ELSE IF SummarizationOff(Truthy(c.openai), c.openai)
            THEN [c EXCEPT !.stage = "done", !.articles = articles,
                           !.response = Reply(c.handler, 200,
                                              Success(DescriptionsAsSummaries(articles),
                                                      Len(c.queries)))]
            ELSE [c EXCEPT !.stage = "summarize", !.articles = articles]]
       /\ UNCHANGED <<fetchVars, sumVars, qbVars, hVars>>

\* The summary of the article at position p of request r's list, given how
\* its completion request ended.
EntryAt(c, outs, p) ==
    LoopEntry(c.articles[p],
              IF Degenerate(c.articles[p])
              THEN [threw |-> FALSE, value |-> Fallback(c.articles[p])]
              ELSE SummarizeArticle(c.articles[p], outs[p]))

\* The completion request of request r's current article ends; after the last
\* one the handler answers.
ConcComplete(r, out) ==
    LET c == conc[r]
        outs == Append(c.outs, out)
    IN /\ c.stage = "summarize"
       /\ conc' = [conc EXCEPT ![r] =
            IF Len(outs) < Len(c.articles)
            THEN [c EXCEPT !.outs = outs]
            ELSE [c EXCEPT !.outs = outs, !.stage = "done",
                           !.response =
                               Reply(c.handler, 200,
                                     Success([p \in 1..Len(c.articles) |-> EntryAt(c, outs, p)],
                                             Len(c.queries)))]]
       /\ UNCHANGED everSeen
       /\ UNCHANGED <<fetchVars, sumVars, qbVars, hVars>>

ConcSettleSome(r) ==
    \E i \in 1..Len(conc[r].up) :
        \E out \in ConcResponses(i, MaxConcArticles - DeliveredIn(conc[r].up)) :
            ConcSettle(r, i, out)

ConcCompleteSome(r) == \E out \in HandlerCompletions : ConcComplete(r, out)

InitMulti == FetchIdle /\ SumIdle /\ QbIdle /\ HandlerIdle /\ ConcInit

NextMulti ==
    \E r \in Requests :
        ConcAccept(r) \/ ConcSettleSome(r) \/ ConcMerge(r) \/ ConcCompleteSome(r)

SpecMulti == InitMulti /\ [][NextMulti]_vars

----------------------------------------------------------------------------
(* What the call is expected to return, stated from the upstream answers *)

Succeeded(i) == upstream[i].kind \in {"ok", "nodata"}

ExpectedArticle(raw) ==
    [title |-> raw.title,
     url |-> IF raw.url = Undefined THEN EmptyStr ELSE raw.url,
     description |-> <<"desc">>, image |-> EmptyStr,
     publishedAt |-> <<"2024">>, source |-> <<"Unknown">>]

Contribution(i) ==
    IF Succeeded(i)
    THEN [p \in 1..Len(upstream[i].articles) |-> ExpectedArticle(upstream[i].articles[p])]
    ELSE <<>>

RECURSIVE FlatUpTo(_)
FlatUpTo(i) == IF i = 0 THEN <<>> ELSE FlatUpTo(i - 1) \o Contribution(i)

\* The articles of the succeeded queries, in the order the queries were issued.
FlatOk == FlatUpTo(Len(upstream))

KeptPositions(flat) ==
    {p \in 1..Len(flat) :
        /\ flat[p].url # EmptyStr
        /\ \A q \in 1..(p - 1) : flat[q].url # flat[p].url}

\* flat with every no-URL article and every later occurrence of a url removed.
RefMerge(flat) ==
    LET S == KeptPositions(flat)
        pos == [r \in 1..Cardinality(S) |->
                   CHOOSE p \in S : Cardinality({q \in S : q < p}) = r - 1]
    IN [r \in 1..Cardinality(S) |-> flat[pos[r]]]

NoUrlCount(s) == Cardinality({p \in 1..Len(s) : s[p].url = EmptyStr})

\* (query index, position) of the hit an article was made from.
Prov(a) == CHOOSE ip \in (1..(MaxQueries + 1)) \X (1..(MaxArticles + 1)) :
               Headline(ip[1], ip[2]) = a.title

Before(x, y) == x[1] < y[1] \/ (x[1] = y[1] /\ x[2] < y[2])

Accepted == Guard(queries, apiKey) = "go"

ExpectedRequests ==
    [i \in 1..Min(Len(queries.items), queryLimit) |-> queries.items[i]]

IsPrefix(s, t) == Len(s) <= Len(t) /\ \A i \in 1..Len(s) : s[i] = t[i]

----------------------------------------------------------------------------
(* Claims *)

\* C1: the list fetchNewsForQueries returns never holds two articles with the
\* same url.
C1_UniqueUrls ==
    ret.kind = "return" =>
        \A a, b \in 1..Len(ret.value) : a # b => ret.value[a].url # ret.value[b].url

C1_Witness ==
    /\ pc = "done" /\ ret.kind = "return" /\ Len(ret.value) >= 2
    /\ \E a, b \in 1..Len(FlatOk) :
          a # b /\ FlatOk[a].url = FlatOk[b].url /\ FlatOk[a].url # EmptyStr

\* C2: whichever fetches fail, the call does not fail and returns the
\* deduplicated merge of the articles of the queries that succeeded.
C2_FaultIsolation ==
    Accepted =>
        /\ ret.kind # "throw"
        /\ pc = "done" => ret = Return(RefMerge(FlatOk))

C2_Witness ==
    /\ pc = "done" /\ Len(ret.value) >= 1
    /\ \E i, j \in 1..Len(limited) :
          /\ i < j /\ upstream[i].kind = "throw" /\ i \in errlog
          /\ Succeeded(j) /\ \E a \in 1..Len(ret.value) : Prov(ret.value[a])[1] = j

\* C3 as stated: k no-URL articles in the successful responses yield k no-URL
\* articles in the merged list.
C3_NoUrlKept ==
    (pc = "done" /\ ret.kind = "return") =>
        NoUrlCount(ret.value) = NoUrlCount(FlatOk)

\* C3 amended: every article with an empty or missing url is dropped; the list
\* returned holds no article without a url.
C3_NoUrlDropped ==
    ret.kind = "return" =>
        \A a \in 1..Len(ret.value) : Truthy(ret.value[a].url)

C3_Witness ==
    /\ pc = "done" /\ ret.kind = "return"
    /\ NoUrlCount(FlatOk) >= 2
    /\ \E i \in 1..Len(upstream) : \E p \in 1..Len(upstream[i].articles) :
          upstream[i].articles[p].url = Undefined
    /\ \E i \in 1..Len(upstream) : \E p \in 1..Len(upstream[i].articles) :
          upstream[i].articles[p].url = EmptyStr
    /\ Len(ret.value) = Len(FlatOk) - NoUrlCount(FlatOk)

\* C4 as stated: with a falsy apiKey the call fails with the configuration
\* error for every query list, the empty list included.
C4_KeyErrorEveryList ==
    (pc = "done" /\ ~Truthy(apiKey)) => ret = Throw(KeyNotConfigured)

\* C4 amended: with a falsy apiKey no outbound request is ever issued, and the
\* call fails with "NEWS_API_KEY is not configured" for every non-empty query
\* list; for an empty or absent list it returns [] instead.
C4_KeyErrorNonEmpty ==
    ~Truthy(apiKey) =>
        /\ requests = <<>>
        /\ pc \in {"call", "done"}
        /\ pc = "done" =>
              ret = IF NoQueries(queries) THEN Return(<<>>) ELSE Throw(KeyNotConfigured)

C4_Witness ==
    /\ pc = "done" /\ ~Truthy(apiKey) /\ Len(queries.items) >= 1
    /\ ret = Throw(KeyNotConfigured) /\ requests = <<>>

\* C5: with an empty or absent query list the call returns [] and issues no
\* outbound request, whatever the apiKey.
C5_EmptyQueries ==
    NoQueries(queries) =>
        /\ requests = <<>>
        /\ pc \in {"call", "done"}
        /\ pc = "done" => ret = Return(<<>>)

C5_Witness ==
    /\ pc = "done" /\ NoQueries(queries) /\ ~Truthy(apiKey)
    /\ ret = Return(<<>>) /\ requests = <<>>

\* C6 as stated: every call with n queries issues exactly min(n, queryLimit)
\* fetches.
C6_MinFetchesEveryCall ==
    pc = "done" => Len(requests) = Min(Len(queries.items), queryLimit)

\* C6 amended: a call with a truthy apiKey issues exactly min(n, queryLimit)
\* fetches, one for each of the first queryLimit queries in list order, none
\* for a later query and none twice; a call with a falsy apiKey issues none.
C6_CapNoRetry ==
    /\ IsPrefix(requests, ExpectedRequests)
    /\ (Accepted /\ pc \in {"await", "done"}) => requests = ExpectedRequests
    /\ ~Accepted => requests = <<>>

C6_Witness ==
    /\ pc = "done" /\ Accepted
    /\ Len(queries.items) > queryLimit /\ queryLimit >= 2
    /\ errlog # {}
    /\ requests = ExpectedRequests

\* C7: every surviving query is launched before any answer is handled, the
\* merge starts only after every launched fetch has settled, and no settled
\* fetch, succeeded or failed, makes the call return early.
C7_FanOutBarrier ==
    /\ pc = "launch" => \A j \in 1..Len(limited) :
                            status[j] = IF j < li THEN "pending" ELSE "idle"
    /\ (\E i \in 1..Len(limited) : status[i] = "settled") =>
          /\ Len(requests) = Len(limited)
          /\ \A j \in 1..Len(limited) : status[j] # "idle"
    /\ (\E i \in 1..Len(limited) : status[i] # "settled") => ret = NoReturn
    /\ (pc = "done" /\ Accepted) =>
          \A i \in 1..Len(limited) : status[i] = "settled"

C7_Witness ==
    /\ pc = "await" /\ Len(limited) >= 2 /\ ret = NoReturn
    /\ status[1] = "pending" /\ status[2] = "settled"

\* C8: whatever order the answers arrive in, the kept articles are ordered by
\* (index of their query, position in its response), and of the articles with
\* one url the kept one is the earliest in that order.
C8_OrderIndependent ==
    (pc = "done" /\ ret.kind = "return") =>
        /\ \A a, b \in 1..Len(ret.value) :
              a < b => Before(Prov(ret.value[a]), Prov(ret.value[b]))
        /\ \A a \in 1..Len(ret.value) : \A p \in 1..Len(FlatOk) :
              FlatOk[p].url = ret.value[a].url =>
                  \/ Prov(FlatOk[p]) = Prov(ret.value[a])
                  \/ Before(Prov(ret.value[a]), Prov(FlatOk[p]))
        /\ \A p \in 1..Len(FlatOk) :
              FlatOk[p].url # EmptyStr =>
                  \E a \in 1..Len(ret.value) : ret.value[a].url = FlatOk[p].url
        /\ \A a \in 1..Len(ret.value) :
              \E p \in 1..Len(FlatOk) : FlatOk[p] = ret.value[a]

C8_Witness ==
    /\ pc = "done" /\ ret.kind = "return" /\ reordered
    /\ Len(ret.value) >= 2
    /\ \E p \in 1..Len(FlatOk) : \E a \in 1..Len(ret.value) :
          /\ FlatOk[p].url = ret.value[a].url
          /\ Prov(FlatOk[p])[1] > Prov(ret.value[a])[1]

ExpectedFallback(article) ==
    IF article.description = Undefined THEN EmptyStr ELSE article.description

\* t is str without its leading and trailing blanks.
IsTrimOf(t, str) ==
    /\ t = <<>> \/ (t[1] # " " /\ t[Len(t)] # " ")
    /\ \E a, b \in 0..Len(str) :
          /\ a + Len(t) + b = Len(str)
          /\ \A k \in 1..Len(str) :
                IF k <= a \/ k > a + Len(t) THEN str[k] = " " ELSE str[k] = t[k - a]

Usable(out) == out.kind = "ok" /\ out.content # EmptyStr

SameArticle(entry, article) ==
    /\ entry.title = article.title /\ entry.url = article.url
    /\ entry.image = article.image /\ entry.publishedAt = article.publishedAt

\* C9: with summarization disabled or no API key, summarizeArticles issues no
\* completion call and returns one entry per article, in input order, whose
\* summary is the article's description ("" when it is absent).
C9_DisabledCopiesDescription ==
    (sPc # "idle" /\ ~NoArticles(sArticles) /\ (~sEnable \/ sApiKey \in {Undefined, EmptyStr})) =>
        /\ completions = <<>>
        /\ sPc \in {"call", "done"}
        /\ sPc = "done" =>
              /\ sRet.kind = "return"
              /\ Len(sRet.value) = Len(sArticles.items)
              /\ \A p \in 1..Len(sArticles.items) :
                    /\ SameArticle(sRet.value[p], sArticles.items[p])
                    /\ sRet.value[p].summary = ExpectedFallback(sArticles.items[p])

C9_Witness ==
    /\ sPc = "done" /\ ~sEnable /\ Truthy(sApiKey)
    /\ Len(sArticles.items) >= 2 /\ Len(sRet.value) = Len(sArticles.items)
    /\ sArticles.items[1].description = Undefined
    /\ Truthy(sArticles.items[2].description) /\ Truthy(sArticles.items[1].title)
    /\ completions = <<>>

\* C10: whatever the completion calls do, summarizeArticles never raises and
\* returns one entry per input article in input order; an article whose call
\* failed or gave nothing usable gets its description ("" when absent) as
\* summary, and the other articles' entries are what their own calls gave.
C10_SummarizeNeverRaises ==
    sPc # "idle" =>
        /\ sRet.kind # "throw"
        /\ Len(summarized) <= Len(sArticles.items)
        /\ \A p \in 1..Len(summarized) :
              /\ SameArticle(summarized[p], sArticles.items[p])
              /\ IF Usable(sOutcome[p])
                 THEN IsTrimOf(summarized[p].summary, sOutcome[p].content)
                 ELSE summarized[p].summary = ExpectedFallback(sArticles.items[p])
        /\ sPc = "done" =>
              /\ sRet.kind = "return"
              /\ Len(sRet.value) = Len(sArticles.items)
              /\ \A p \in 1..Len(sArticles.items) :
                    /\ SameArticle(sRet.value[p], sArticles.items[p])
                    /\ IF Usable(sOutcome[p])
                       THEN IsTrimOf(sRet.value[p].summary, sOutcome[p].content)
                       ELSE sRet.value[p].summary = ExpectedFallback(sArticles.items[p])

C10_Witness ==
    /\ sPc = "done" /\ Len(sArticles.items) >= 2
    /\ sOutcome[1].kind \in {"error", "timeout"} /\ Truthy(sArticles.items[1].description)
    /\ sRet.value[1].summary = sArticles.items[1].description
    /\ sOutcome[2].kind = "ok" /\ sRet.value[2].summary = <<"a", " ", "b">>

FinalFields == {"title", "url", "summary", "image", "publishedAt"}

\* C11: on every path every article summarizeArticles returns has exactly the
\* fields title, url, summary, image, publishedAt.
C11_FiveFields ==
    (sPc = "done" /\ sRet.kind = "return") =>
        \A p \in 1..Len(sRet.value) : DOMAIN sRet.value[p] = FinalFields

\* The completion requests that were sent and have not ended.
Outstanding == {k \in 1..Len(completions) : sOutcome[completions[k]] = NoOutcome}

\* C19: at most one completion request is outstanding at any time; requests
\* are sent in input order, at most one per article, and the next one only
\* after the previous one has ended.
C19_Sequential ==
    sPc # "idle" =>
        /\ Cardinality(Outstanding) <= 1
        /\ Cardinality(Outstanding) = 1 <=> sPc = "wait"
        /\ \A k, l \in 1..Len(completions) : k < l => completions[k] < completions[l]
        /\ \A k \in 1..(Len(completions) - 1) : sOutcome[completions[k]] # NoOutcome
        /\ \A k \in 1..Len(completions) : completions[k] <= sIdx

C19_Witness ==
    /\ sPc = "wait" /\ Len(completions) = 2
    /\ sOutcome[1].kind \in {"error", "timeout"} /\ sOutcome[2] = NoOutcome

\* Every character of q is a blank (so is the empty string).
AllSpaces(q) == \A k \in 1..Len(q) : q[k] = " "

\* The index at which q first occurs in items.
FirstAt(items, q) ==
    CHOOSE i \in 1..Len(items) : items[i] = q /\ \A j \in 1..(i - 1) : items[j] # q

\* C12: buildAllQueries returns the local, business and community queries in
\* that order without the blank strings, every string only at its first
\* occurrence under exact equality: no duplicate, no blank string, nothing
\* else lost; [] for absent data.
C12_FirstOccurrences ==
    qPc = "done" =>
        IF data.absent THEN uniqueQueries = <<>>
        ELSE LET all == localQueries \o businessQueries \o communityQueries
                 u == uniqueQueries
             IN /\ \A i \in 1..Len(u) : ~AllSpaces(u[i])
                /\ \A i, j \in 1..Len(u) : i < j => u[i] # u[j]
                /\ {u[i] : i \in 1..Len(u)} =
                       {all[k] : k \in {n \in 1..Len(all) : ~AllSpaces(all[n])}}
                /\ \A i, j \in 1..Len(u) :
                       i < j => FirstAt(all, u[i]) < FirstAt(all, u[j])

\* Two builders emit the same string, and two strings that differ in case only
\* are both kept.
C12_Witness ==
    /\ qPc = "done" /\ ~data.absent
    /\ \E i \in 1..Len(localQueries), k \in 1..Len(communityQueries) :
           localQueries[i] = communityQueries[k]
    /\ Len(uniqueQueries) <
           Len(localQueries) + Len(businessQueries) + Len(communityQueries)
    /\ \E i, j \in 1..Len(uniqueQueries) :
           /\ uniqueQueries[i] = <<"A", " local news">>
           /\ uniqueQueries[j] = <<"a", " local news">>

\* 2 when the field holds a non-empty string, 0 otherwise.
QueriesFor(field) == IF field # Undefined /\ field # EmptyStr THEN 2 ELSE 0

\* C13: buildLocalQueries returns two queries per present field, in the order
\* city, state, country, none for an absent field, [] for an absent location,
\* and never prints a missing field.
C13_TwoPerField ==
    (qPc = "done" /\ ~data.absent) =>
        LET location == data.location
            q == localQueries
        IN IF location.absent THEN q = <<>>
           ELSE LET nc == QueriesFor(location.city)
                    ns == QueriesFor(location.state)
                    nn == QueriesFor(location.country)
                IN /\ Len(q) = nc + ns + nn
                   /\ nc = 2 => /\ q[1] = location.city \o <<" news">>
                                /\ q[2] = location.city \o <<" local news">>
                   /\ ns = 2 => /\ q[nc + 1] = location.state \o <<" local news">>
                                /\ q[nc + 2] = location.state \o <<" latest news">>
                   /\ nn = 2 => /\ q[nc + ns + 1] = location.country \o <<" national news">>
                                /\ q[nc + ns + 2] = location.country \o <<" latest news">>
                   /\ \A i \in 1..Len(q) : \A k \in 1..Len(q[i]) : q[i][k] # Undefined[1]

C13_Witness ==
    /\ qPc = "done" /\ ~data.absent /\ ~data.location.absent
    /\ data.location.city = <<"A">>
    /\ data.location.state = Undefined
    /\ data.location.country = <<"a">>
    /\ Len(localQueries) = 4

\* A string with something else than blanks in it.
NonBlankString(e) == IsString(e) /\ ~AllSpaces(e)

\* q is the trimmed interest followed by suffix.
IsInterestQuery(q, interest, suffix) ==
    /\ Len(q) >= 1
    /\ q[Len(q)] = suffix
    /\ IsTrimOf(SubSeq(q, 1, Len(q) - 1), interest)

\* C14: buildBusinessQueries returns [] for a missing or non-array input, and
\* otherwise, in element order, "<interest> business news" and
\* "<interest> trends" (interest trimmed) for each element that is a string
\* with a non-blank character, and nothing for the other elements.
C14_TwoPerInterest ==
    (qPc = "done" /\ ~data.absent) =>
        LET items == data.businessInterests.items
            q == businessQueries
            kept == {p \in 1..Len(items) : NonBlankString(items[p])}
            Rank(p) == Cardinality({r \in kept : r <= p})
        IN IF data.businessInterests.kind # "array" THEN q = <<>>
           ELSE /\ Len(q) = 2 * Cardinality(kept)
                /\ \A p \in kept :
                      /\ IsInterestQuery(q[2 * Rank(p) - 1], items[p], " business news")
                      /\ IsInterestQuery(q[2 * Rank(p)], items[p], " trends")

C14_Witness ==
    /\ qPc = "done" /\ ~data.absent
    /\ data.businessInterests.kind = "array"
    /\ data.businessInterests.items = <<<<" ">>, <<" ", "A", " ">>>>
    /\ businessQueries = <<<<"A", " business news">>, <<"A", " trends">>>>

\* One of the two documented envelopes.
IsEnvelope(b) ==
    \/ /\ b.status = "success"
       /\ "results" \in DOMAIN b
       /\ "error" \notin DOMAIN b
    \/ /\ b.status = "error"
       /\ DOMAIN b = {"status", "error", "results"}
       /\ b.results = <<>>

\* The request is a getNews call or a getNewsHttp request other than OPTIONS.
Served == hPc # "idle" /\ method # "OPTIONS"

\* C15: a getNews invocation or non-OPTIONS getNewsHttp request never answers
\* twice, has answered exactly once when it ends, can always go on until it
\* ends, and its answer is a success envelope or an error envelope.
C15_OneEnvelope ==
    Served =>
        /\ Len(responses) = (IF hPc = "done" THEN 1 ELSE 0)
        /\ hPc # "done" => ENABLED NextHandler
        /\ \A r \in 1..Len(responses) :
              /\ responses[r].via = (IF hKind = "getNews" THEN "return" ELSE "json")
              /\ IsEnvelope(responses[r].body)

C15_Witness ==
    /\ Served /\ hPc = "done" /\ hKind = "getNewsHttp"
    /\ responses[1].body.status = "success"
    /\ Len(responses[1].body.results) = 2
    /\ \E i \in 1..Len(upstream) : upstream[i].kind = "throw"
    /\ \E p \in 1..Len(sOutcome) : sOutcome[p].kind = "error"

\* The text a rejected request is answered with: the validation texts in the
\* order absent data, absent location, no usable field, then the key text.
RejectionText ==
    IF request.absent THEN "Request data is required"
    ELSE IF request.location.absent
    THEN "Location is required. Please provide city, state, and country."
    ELSE IF /\ request.location.city \in {Undefined, EmptyStr}
            /\ request.location.state \in {Undefined, EmptyStr}
            /\ request.location.country \in {Undefined, EmptyStr}
    THEN "At least one of city, state, or country is required in location."
    ELSE IF hKind = "getNews"
    THEN "News API is not configured. Please contact administrator."
    ELSE "News API is not configured."

Invalid ==
    \/ request.absent
    \/ request.location.absent
    \/ /\ request.location.city \in {Undefined, EmptyStr}
       /\ request.location.state \in {Undefined, EmptyStr}
       /\ request.location.country \in {Undefined, EmptyStr}

\* C16: a request that fails validation, or that finds no news API key, runs
\* no pipeline step and issues no outbound call; it ends in an error envelope
\* with results = [], and the validation error wins over the missing key.
C16_RejectedBeforePipeline ==
    (Served /\ (Invalid \/ newsApiKey \in {Undefined, EmptyStr})) =>
        /\ pipeline = <<>>
        /\ pc = "idle" /\ sPc = "idle"
        /\ requests = <<>> /\ completions = <<>>
        /\ hPc = "done" =>
              /\ Len(responses) = 1
              /\ responses[1].body.status = "error"
              /\ responses[1].body.results = <<>>
              /\ responses[1].body.error = RejectionText

C16_Witness ==
    /\ Served /\ hPc = "done"
    /\ Invalid /\ newsApiKey = Undefined
    /\ ~request.absent /\ request.location.absent
    /\ responses[1].body.error =
           "Location is required. Please provide city, state, and country."

\* What getNews returns for the payload, the keys and the upstream behaviour
\* of the request at hand.
GetNewsAnswer ==
    CASE Invalid -> ErrorEnvelope(RejectionText)
      [] ~Invalid /\ newsApiKey \in {Undefined, EmptyStr} ->
            ErrorEnvelope("News API is not configured. Please contact administrator.")
      [] OTHER ->
            IF Len(hQueries) = 0
            THEN EmptySuccess("No search queries could be generated from the provided data.")
            ELSE IF ret.kind = "throw"
            THEN ErrorEnvelope("Failed to fetch news articles. Please try again later.")
            ELSE IF Len(ret.value) = 0
            THEN EmptySuccess("No news articles found for your criteria.")
            ELSE Success(sRet.value, Len(hQueries))

\* C18: the JSON body getNewsHttp sends equals the value getNews returns for
\* the same payload, keys and upstream behaviour.
C18_SameBody ==
    (Served /\ hPc = "done" /\ hKind = "getNewsHttp") =>
        responses[1].body = GetNewsAnswer

\* Every query was sent and every upstream fetch failed.
AllFetchesFailed ==
    /\ pc = "done"
    /\ Len(upstream) > 0
    /\ \A i \in 1..Len(upstream) : upstream[i].kind = "throw"

\* C20: when every upstream news fetch of an accepted request fails, the
\* handler answers with a success envelope with results = [] and a message;
\* no upstream failure leads to the answer "Failed to fetch news articles".
C20_FetchFailureNotFatal ==
    (Served /\ hPc = "done") =>
        /\ AllFetchesFailed =>
              /\ responses[1].body.status = "success"
              /\ responses[1].body.results = <<>>
              /\ "message" \in DOMAIN responses[1].body
        /\ (\E i \in 1..Len(upstream) : upstream[i].kind = "throw") =>
              /\ responses[1].body.status = "success"
              /\ "error" \notin DOMAIN responses[1].body

C20_Witness ==
    /\ Served /\ hPc = "done"
    /\ AllFetchesFailed /\ Len(upstream) = 3
    /\ responses[1].body.status = "success"
    /\ responses[1].body.results = <<>>

RECURSIVE FlatOf(_)
\* The articles of the answered queries of one request, in query order.
FlatOf(up) ==
    IF up = <<>> THEN <<>>
    ELSE (IF Head(up).kind = "ok"
          THEN [p \in 1..Len(Head(up).articles) |-> ExpectedArticle(Head(up).articles[p])]
          ELSE <<>>)
         \o FlatOf(Tail(up))

\* The summary request c's answer holds for article a at position p, given
\* how the completion requests ended.
SoloSummary(a, outs, p) ==
    IF p \in DOMAIN outs /\ Usable(outs[p]) THEN Trim(outs[p].content)
    ELSE a.description

\* The answer request c gets when it is the only request: computed from its
\* own payload, keys, upstream answers and completion outcomes.
SoloAnswer(c) ==
    LET merged == RefMerge(FlatOf(c.up))
        used == Len(AllQueries(c.payload))
    IN IF ~ValidateRequest(c.payload).isValid
       THEN [via |-> "return", body |-> ErrorEnvelope(ValidateRequest(c.payload).error)]
       ELSE IF c.news = Undefined
       THEN [via |-> "return",
             body |-> ErrorEnvelope("News API is not configured. Please contact administrator.")]
       ELSE IF Len(merged) = 0
       THEN [via |-> "return",
             body |-> EmptySuccess("No news articles found for your criteria.")]
       ELSE IF c.openai = Undefined
       THEN [via |-> "return",
             body |-> Success([p \in 1..Len(merged) |->
                                  [title |-> merged[p].title, url |-> merged[p].url,
                                   description |-> merged[p].description,
                                   image |-> merged[p].image,
                                   publishedAt |-> merged[p].publishedAt,
                                   source |-> merged[p].source,
                                   summary |-> merged[p].description]],
                              used)]
       ELSE [via |-> "return",
             body |-> Success([p \in 1..Len(merged) |->
                                  [title |-> merged[p].title, url |-> merged[p].url,
                                   summary |-> SoloSummary(merged[p], c.outs, p),
                                   image |-> merged[p].image,
                                   publishedAt |-> merged[p].publishedAt]],
                              used)]

\* C17: however the steps of two requests interleave, each request's answer
\* is the answer it gets alone with the same payload, keys and upstream
\* responses; a url one request has seen is not suppressed in the other.
C17_NoInterference ==
    conc # <<>> =>
        \A r \in Requests :
            conc[r].stage = "done" => conc[r].response = SoloAnswer(conc[r])

\* Both requests were in flight together and both answer with the article of
\* the same url.
C17_Witness ==
    /\ conc # <<>>
    /\ \A r \in Requests :
          /\ conc[r].stage = "done"
          /\ conc[r].response.body.status = "success"
          /\ Len(conc[r].response.body.results) = 1
          /\ conc[r].response.body.results[1].url = <<"u1">>
    /\ \E r \in Requests : conc[r].overlapped

\* The handler has answered with a success envelope that carries articles.
AnsweredWithArticles ==
    /\ Served /\ hPc = "done"
    /\ responses[1].body.status = "success"
    /\ Len(responses[1].body.results) > 0

\* C21: a request handled without openaiApiKey issues no completion call and
\* every result's summary is the fetched article's description; a completion
\* call is issued only when the key is configured and an article was fetched.
C21_KeyIsTheSwitch ==
    Served =>
        /\ openaiApiKey \in {Undefined, EmptyStr} =>
              /\ completions = <<>>
              /\ AnsweredWithArticles =>
                    /\ Len(responses[1].body.results) = Len(ret.value)
                    /\ \A p \in 1..Len(ret.value) :
                          /\ responses[1].body.results[p].url = ret.value[p].url
                          /\ responses[1].body.results[p].summary = ret.value[p].description
        /\ completions # <<>> =>
              /\ openaiApiKey \notin {Undefined, EmptyStr}
              /\ ret.kind = "return" /\ Len(ret.value) > 0

C21_Witness ==
    /\ AnsweredWithArticles
    /\ openaiApiKey = Undefined
    /\ Len(responses[1].body.results) = 2
    /\ responses[1].body.results[2].summary = <<"desc">>
    /\ completions = <<>>

\* The outbound calls of a request stay within their budgets: at most
\* queryLimit news requests, at most one completion request per merged article.
WithinBudget ==
    /\ Len(requests) <= Min(DEFAULT_QUERY_LIMIT, Len(hQueries))
    /\ \A k \in 1..Len(completions) :
          /\ ret.kind = "return"
          /\ completions[k] \in 1..Len(ret.value)
          /\ \A l \in 1..Len(completions) : completions[l] = completions[k] => l = k

\* C22: when every outbound request eventually settles, every getNews
\* invocation and every getNewsHttp request eventually answers, exactly once;
\* meanwhile it issues at most queryLimit news requests and at most one
\* completion request per deduplicated article.
C22_Terminates ==
    /\ (hPc = "request") ~> (hPc = "done" /\ Len(responses) = 1)
    /\ [](hPc # "idle" => WithinBudget)

\* The request has answered although one fetch failed, answers arrived out of
\* order and a completion request failed.
C22_Witness ==
    /\ hPc = "done" /\ Len(responses) = 1
    /\ reordered
    /\ \E i \in 1..Len(upstream) : upstream[i].kind = "throw"
    /\ Len(requests) = 3
    /\ Len(completions) = 2
    /\ \E p \in 1..Len(sOutcome) : sOutcome[p].kind = "error"

\* The location has a field that holds a non-empty string.
HasPlace(l) ==
    /\ ~l.absent
    /\ \E f \in {l.city, l.state, l.country} : f # Undefined /\ f # EmptyStr

Distinct(items) == {items[i] : i \in 1..Len(items)}

\* C23: a payload that passes validation builds at least two distinct
\* queries, so no handler answers "No search queries could be generated", and
\* once validation and the key check have passed a news fetch is issued.
C23_ValidPayloadHasQueries ==
    /\ hPc = "request" =>
          \A l \in Locations :
              HasPlace(l) => Cardinality(Distinct(AllQueries(Payload(l)))) >= 2
    /\ (Served /\ HasPlace(request.location)) =>
          /\ Cardinality(Distinct(AllQueries(request))) >= 2
          /\ (hPc # "request" /\ newsApiKey \notin {Undefined, EmptyStr}) =>
                /\ Len(hQueries) >= 2
                /\ pc # "idle"
                /\ pc \in {"await", "done"} => Len(requests) >= 1
    /\ \A r \in 1..Len(responses) :
          method # "OPTIONS" =>
              ("message" \in DOMAIN responses[r].body =>
                  responses[r].body.message \notin
                      {"No search queries could be generated from the provided data.",
                       "No search queries could be generated."})

C23_Witness ==
    /\ Served /\ hPc = "done"
    /\ request.location = Place(Undefined, EmptyStr, <<"C">>)
    /\ request.businessInterests.kind = "absent" /\ request.community = Undefined
    /\ Len(hQueries) = 2
    /\ Len(requests) = 2

\* The distinct queries the location of the request yields.
LocalSet == Distinct(BuildLocalQueries(request.location))

\* The queries only the business interests or the community yield.
ExtraSet ==
    (Distinct(BuildBusinessQueries(request.businessInterests))
        \cup Distinct(BuildCommunityQueries(request.community))) \ LocalSet

\* C24: when the location alone yields at least queryLimit distinct queries,
\* every query sent to the news API is a local one: no business query and no
\* community query is ever sent, whatever the payload holds besides.
C24_LocalQueriesStarveTheRest ==
    (Served /\ HasPlace(request.location)
        /\ Cardinality(LocalSet) >= DEFAULT_QUERY_LIMIT) =>
        /\ Len(requests) <= DEFAULT_QUERY_LIMIT
        /\ \A k \in 1..Len(requests) :
              /\ requests[k] \in LocalSet
              /\ requests[k] \notin ExtraSet
              /\ requests[k] = BuildLocalQueries(request.location)[k]

C24_Witness ==
    /\ Served /\ hPc = "done"
    /\ request.location = Place(<<"A">>, <<"B">>, <<"C">>)
    /\ Cardinality(ExtraSet) = 5
    /\ Len(hQueries) = 11
    /\ Len(requests) = 5
    /\ requests[5] = <<"C", " national news">>

\* The number of distinct queries the three builders yield for the request.
BuiltCount == Cardinality(LocalSet \cup ExtraSet)

\* C25: in a success envelope with articles, queriesUsed is the number of
\* queries buildAllQueries returned, which exceeds the number of queries sent
\* when more than queryLimit were built; totalArticles is the length of
\* results.
C25_QueriesUsedCountsBuilt ==
    AnsweredWithArticles =>
        LET body == responses[1].body IN
        /\ body.queriesUsed = BuiltCount
        /\ body.totalArticles = Len(body.results)
        /\ BuiltCount > DEFAULT_QUERY_LIMIT =>
              /\ Len(requests) = DEFAULT_QUERY_LIMIT
              /\ body.queriesUsed > Len(requests)
        /\ BuiltCount <= DEFAULT_QUERY_LIMIT => body.queriesUsed = Len(requests)

C25_Witness ==
    /\ AnsweredWithArticles
    /\ hKind = "getNewsHttp"
    /\ responses[1].body.queriesUsed = 7
    /\ responses[1].body.totalArticles = 1
    /\ Len(requests) = 5

====
